---- MODULE Spec2Model ----
(***************************************************************************)
(* Transaction lifecycle of ForestDB (src/src/transaction.cc):             *)
(* FdbEngine::beginTransaction / endTransaction / abortTransaction run by  *)
(* several threads on shared handles, the process-wide transaction_id      *)
(* counter, the per-handle busy guard, the per-file mutex and the WAL's     *)
(* transaction list.                                                       *)
(***************************************************************************)
EXTENDS Integers, Sequences, FiniteSets, TLC

\* ------------------------------------------------------------------ bounds
MaxCalls == 3      \* lifecycle calls made in one behaviour, all threads together
MaxEnv == 2        \* file-state transitions made by other components
MaxWrites == 1     \* writes issued under a transaction
MaxFairCalls == 2  \* lifecycle calls made in one behaviour under fair scheduling
MaxItems == 2      \* wal_items that exist
MaxItemOps == 4    \* item-list calls made in one behaviour, all threads together

\* --------------------------------------------------------------- universe
Threads == {"t1", "t2"}
NoThread == "none"

NullFhandle == "null"       \* fhandle == NULL or no root handle
Handles == {"hr", "hs", "h2"}
Files == {"f1", "f2"}

\* handle->file
FileOf(h) == IF h = "h2" THEN "f2" ELSE "f1"

KVS_ROOT == "KVS_ROOT"
KVS_SUB == "KVS_SUB"
NoKvs == "nokvs"            \* handle->kvs == NULL (single key-value store mode)
\* handle->kvs->getKvsType()
getKvsType(h) == CASE h = "hr" -> KVS_ROOT
                   [] h = "hs" -> KVS_SUB
                   [] OTHER -> NoKvs

FILE_NORMAL == "FILE_NORMAL"
FILE_COMPACT_OLD == "FILE_COMPACT_OLD"
FILE_REMOVED_PENDING == "FILE_REMOVED_PENDING"
FileStatuses == {FILE_NORMAL, FILE_COMPACT_OLD, FILE_REMOVED_PENDING}

FDB_RESULT_SUCCESS == "FDB_RESULT_SUCCESS"
FDB_RESULT_INVALID_HANDLE == "FDB_RESULT_INVALID_HANDLE"
FDB_RESULT_TRANSACTION_FAIL == "FDB_RESULT_TRANSACTION_FAIL"
FDB_RESULT_HANDLE_BUSY == "FDB_RESULT_HANDLE_BUSY"
FDB_RESULT_FAIL_BY_ROLLBACK == "FDB_RESULT_FAIL_BY_ROLLBACK"
ReopenError == "FDB_RESULT_OPEN_FAIL"       \* a status of fdb_check_file_reopen
CommitError == "FDB_RESULT_COMMIT_FAIL"     \* a status of commitWithKVHandle
NoStatus == "nostatus"                      \* no call has returned yet

NoTxn == 0                  \* handle->txn == NULL; transactions are 1, 2, ...
BLK_NOT_FOUND == -1
NullList == <<>>            \* txn_items == nullptr; a list L that exists is <<L>>

OpBegin == "begin"
OpEnd == "end"
OpAbort == "abort"
NoOp == "noop"

VARIABLES
    th,              \* per thread: the call it runs and its locals
    handle_txn,      \* handle->txn
    handle_busy,     \* the busy guard of each handle (its holder)
    last_hdr_bid,    \* handle->last_hdr_bid
    cur_header_revnum, \* handle->cur_header_revnum
    file_mutex,      \* holder of each file's mutex
    file_status,     \* FileMgr::getFileStatus()
    rollback_on,     \* FileMgr::isRollbackOn()
    file_header,     \* revision of the file's latest header
    transaction_id,  \* static std::atomic<uint64_t> transaction_id
    txns,            \* every FdbTransaction constructed, in construction order
    wal_txn_list,    \* per file: the transactions registered with its WAL
    wal_entries,     \* per transaction: its uncommitted WAL entries
    last,            \* the call that returned last: call, handle, status, effects
    crashed,         \* the process died of a null dereference
    null_deref,      \* some operation used handle->txn after it was cleared or deleted
    ncalls, nenv, nwrites,
    txn_lock,        \* holder of the txn_lock of the handle's transaction
    list_freed,      \* txn_items points to a TxnItemList that has been deleted
    dwq_index,       \* item->dwq_index of each wal_item
    ith,             \* per thread: the item-list call it runs and its locals
    stable,          \* txn_items as the last completed mutation left it
    ilast,           \* the item-list call that returned last
    lock_order,      \* addTxnItem calls that have taken txn_lock
    discarded,       \* resetTxnItems has run on the transaction
    passed,          \* the items that have been passed to addTxnItem so far
    nitemops

vars == <<th, handle_txn, handle_busy, last_hdr_bid, cur_header_revnum,
          file_mutex, file_status, rollback_on, file_header, transaction_id,
          txns, wal_txn_list, wal_entries, last, crashed, null_deref,
          ncalls, nenv, nwrites, txn_lock, list_freed, dwq_index, ith, stable,
          ilast, lock_order, discarded, passed, nitemops>>

itemVars == <<txn_lock, list_freed, dwq_index, ith, stable, ilast, lock_order,
              discarded, passed, nitemops>>

handleVars == <<handle_txn, handle_busy, last_hdr_bid, cur_header_revnum>>
fileVars == <<file_mutex, file_status, rollback_on, file_header>>
txnVars == <<transaction_id, txns, wal_txn_list, wal_entries>>
ubVars == <<crashed, null_deref>>
countVars == <<ncalls, nenv, nwrites>>

\* pc: the statement the thread is at; op, h: the call it runs; adds, stores:
\* the addTransaction_Wal calls and the writes of handle->txn made by the
\* call; target: the transaction the abort or end works on; txn: the value of
\* handle->txn endTransaction has loaded for its getItemCount call; cnt: the
\* item count it has read; fs: the status its commit has returned;
\* retried: the call has seen FILE_REMOVED_PENDING and started its loop over.
IdleThread == [pc |-> "idle", op |-> NoOp, h |-> NullFhandle,
               adds |-> 0, stores |-> 0, target |-> NoTxn, txn |-> NoTxn,
               cnt |-> 0, fs |-> NoStatus, retried |-> FALSE]
NoCall == [op |-> NoOp, h |-> NullFhandle, ret |-> NoStatus,
           adds |-> 0, stores |-> 0, target |-> NoTxn]

\* a wal_item: items are 1..MaxItems; a slot set to nullptr holds NullItem
Items == 1..MaxItems
NullItem == 0
\* uint64_t(-1), the dwq_index of an item that is in no list
NoDwqIndex == -1

OpAdd == "addTxnItem"
OpResetItem == "resetTxnItem"
OpResetItems == "resetTxnItems"
OpCount == "getItemCount"
OpList == "getItemList"

\* pc, op, item: the item-list call the thread runs; ret: what it will
\* return (for resetTxnItem, the item->dwq_index it has read); ord: for
\* addTxnItem, how many addTxnItem calls took txn_lock before
IdleItemThread == [pc |-> "idle", op |-> NoOp, item |-> NullItem, ret |-> 0, ord |-> 0]
NoItemCall == [t |-> NoThread, op |-> NoOp, item |-> NullItem, ret |-> 0, ord |-> 0]

InitItemVars ==
    /\ txn_lock = NoThread
    /\ list_freed = FALSE
    /\ dwq_index = [i \in Items |-> NoDwqIndex]
    /\ ith = [t \in Threads |-> IdleItemThread]
    /\ stable = NullList
    /\ ilast = NoItemCall
    /\ lock_order = 0
    /\ discarded = FALSE
    /\ passed = {}
    /\ nitemops = 0

Init ==
    /\ th = [t \in Threads |-> IdleThread]
    /\ handle_txn = [h \in Handles |-> NoTxn]
    /\ handle_busy = [h \in Handles |-> NoThread]
    /\ last_hdr_bid = [h \in Handles |-> 0]
    /\ cur_header_revnum = [h \in Handles |-> 0]
    /\ file_mutex = [f \in Files |-> NoThread]
    /\ file_status = [f \in Files |-> FILE_NORMAL]
    /\ rollback_on = [f \in Files |-> FALSE]
    /\ file_header = [f \in Files |-> 0]
    /\ transaction_id = 0
    /\ txns = <<>>
    /\ wal_txn_list = [f \in Files |-> <<>>]
    /\ wal_entries = <<>>
    /\ last = NoCall
    /\ crashed = FALSE
    /\ null_deref = FALSE
    /\ ncalls = 0 /\ nenv = 0 /\ nwrites = 0
    /\ InitItemVars


\* ------------------------------------------------- collaborators (narrow contracts)
\* FileMgr::mutexLock / mutexUnlock
mutexLock(m, f, t) == [m EXCEPT ![f] = t]
mutexUnlock(m, f) == [m EXCEPT ![f] = NoThread]

\* BEGIN_HANDLE_BUSY(handle) succeeds iff the guard is free; END_HANDLE_BUSY frees it
BEGIN_HANDLE_BUSY(b, h, t) == [b EXCEPT ![h] = t]
END_HANDLE_BUSY(b, h) == [b EXCEPT ![h] = NoThread]

\* statuses fdb_check_file_reopen(handle, NULL) can return
fdb_check_file_reopen == {FDB_RESULT_SUCCESS, ReopenError}

\* statuses commitWithKVHandle(handle, opt, sync) can return
commitWithKVHandle == {FDB_RESULT_SUCCESS, CommitError}

\* block id of the header that has revision rev
HeaderBid(rev) == rev + 1

\* Wal::addTransaction_Wal, removeTransaction_Wal, discardTxnEntries_Wal
addTransaction_Wal(list, x) == Append(list, x)
removeTransaction_Wal(list, x) == SelectSeq(list, LAMBDA y : y # x)
discardTxnEntries_Wal(entries, x) == [entries EXCEPT ![x] = 0]

\* ------------------------------------------------------------ FdbTransaction
getItemCount(txn) == IF txn.txn_items = NullList THEN 0 ELSE Len(txn.txn_items[1])

addTxnItem(txn, item) ==
    LET list == IF txn.txn_items = NullList THEN <<>> ELSE txn.txn_items[1]
    IN  [txn EXCEPT !.txn_items = <<Append(list, item)>>]

\* a counter that is read but not advanced
NextTransactionId_NoIncrement(counter) == counter
\* transaction_id++ : the counter after the constructor has taken its value
\* (MaxCalls keeps it far below the 64-bit wrap)
NextTransactionId(counter) == counter + 1

\* the constructed object; the isolation level is stored and never read by the
\* lifecycle code, so it is left out
FdbTransaction(h, prev_hdr_bid, prev_revnum) ==
    [txn_id |-> transaction_id, handle |-> h, prev_hdr_bid |-> prev_hdr_bid,
     prev_revnum |-> prev_revnum, txn_items |-> NullList, destroyed |-> 0]

\* ------------------------------------------------------------ thread steps
OK == "ok"
SlotOf(h) == IF h = NullFhandle THEN NoTxn ELSE handle_txn[h]
KvsOf(h) == IF h = NullFhandle THEN NoKvs ELSE getKvsType(h)
Goto(t, l) == th' = [th EXCEPT ![t].pc = l] /\ UNCHANGED last
\* while (fstatus == FILE_REMOVED_PENDING): the loop starts over
Retry(t, l) == th' = [th EXCEPT ![t].pc = l, ![t].retried = TRUE] /\ UNCHANGED last
Return(t, s) ==
    /\ th' = [th EXCEPT ![t] = IdleThread]
    /\ last' = [op |-> th[t].op, h |-> th[t].h, ret |-> s,
                adds |-> th[t].adds, stores |-> th[t].stores,
                target |-> th[t].target]
Enter(t, o, h, s, l) ==
    IF s = OK
      THEN /\ th' = [th EXCEPT ![t] = [IdleThread EXCEPT !.op = o, !.h = h, !.pc = l]]
           /\ UNCHANGED last
      ELSE /\ last' = [NoCall EXCEPT !.op = o, !.h = h, !.ret = s]
           /\ UNCHANGED th

\* beginTransaction's checks without the denial of sub-keyspace handles
beginPrecondition_NoKvsCheck(h, slot, kvs) ==
    IF h = NullFhandle THEN FDB_RESULT_INVALID_HANDLE
    ELSE IF slot # NoTxn THEN FDB_RESULT_TRANSACTION_FAIL
    ELSE OK

\* the checks made before any lock is taken: the status returned, or OK
beginPrecondition(h, slot, kvs) ==
    IF h = NullFhandle THEN FDB_RESULT_INVALID_HANDLE
    ELSE IF slot # NoTxn THEN FDB_RESULT_TRANSACTION_FAIL
    ELSE IF kvs # NoKvs /\ kvs = KVS_SUB THEN FDB_RESULT_INVALID_HANDLE
    ELSE OK

abortPrecondition(h, slot, kvs) ==
    IF h = NullFhandle THEN FDB_RESULT_INVALID_HANDLE
    ELSE IF slot = NoTxn THEN FDB_RESULT_TRANSACTION_FAIL
    ELSE IF kvs # NoKvs /\ kvs = KVS_SUB THEN FDB_RESULT_INVALID_HANDLE
    ELSE OK

\* endTransaction's checks with the active-transaction check left out
endPrecondition_NoTxnCheck(h, slot, kvs) ==
    IF h = NullFhandle THEN FDB_RESULT_INVALID_HANDLE
    ELSE IF kvs # NoKvs /\ kvs = KVS_SUB THEN FDB_RESULT_INVALID_HANDLE
    ELSE OK

endPrecondition(h, slot, kvs) ==
    IF h = NullFhandle THEN FDB_RESULT_INVALID_HANDLE
    ELSE IF slot = NoTxn THEN FDB_RESULT_TRANSACTION_FAIL
    ELSE IF kvs # NoKvs /\ kvs = KVS_SUB THEN FDB_RESULT_INVALID_HANDLE
    ELSE OK

CanCall(t) == ~crashed /\ th[t].pc = "idle" /\ ncalls < MaxCalls
At(t, l) == ~crashed /\ th[t].pc = l

\* fdb_sync_db_header(handle): the handle takes over the file's latest header
fdb_sync_db_header(h) ==
    /\ last_hdr_bid' = [last_hdr_bid EXCEPT ![h] = HeaderBid(file_header[FileOf(h)])]
    /\ cur_header_revnum' = [cur_header_revnum EXCEPT ![h] = file_header[FileOf(h)]]

\* ------------------------------------------------------- beginTransaction
\* the call and its precondition checks
beginTransaction(t, h) ==
    /\ CanCall(t)
    /\ Enter(t, OpBegin, h, beginPrecondition(h, SlotOf(h), KvsOf(h)), "b_busy")
    /\ ncalls' = ncalls + 1
    /\ UNCHANGED <<handleVars, fileVars, txnVars, ubVars, nenv, nwrites, itemVars>>

\* if (!BEGIN_HANDLE_BUSY(handle)) return FDB_RESULT_HANDLE_BUSY;
begin_HandleBusy(t) ==
    /\ At(t, "b_busy")
    /\ IF handle_busy[th[t].h] # NoThread
         THEN Return(t, FDB_RESULT_HANDLE_BUSY) /\ UNCHANGED handle_busy
         ELSE Goto(t, "b_reopen")
              /\ handle_busy' = BEGIN_HANDLE_BUSY(handle_busy, th[t].h, t)
    /\ UNCHANGED <<handle_txn, last_hdr_bid, cur_header_revnum, fileVars,
                   txnVars, ubVars, countVars, itemVars>>

\* status = fdb_check_file_reopen(handle, NULL), and the exit when it fails
begin_Reopen(t) ==
    /\ At(t, "b_reopen")
    /\ \E status \in fdb_check_file_reopen :
         IF status # FDB_RESULT_SUCCESS
           THEN Return(t, status)
                /\ handle_busy' = END_HANDLE_BUSY(handle_busy, th[t].h)
           ELSE Goto(t, "b_lock") /\ UNCHANGED handle_busy
    /\ UNCHANGED <<handle_txn, last_hdr_bid, cur_header_revnum, fileVars,
                   txnVars, ubVars, countVars, itemVars>>

\* a rollback check that waits for the file status to be stable
beginRollbackCheck_WhenStable(f) ==
    rollback_on[f] /\ file_status[f] # FILE_REMOVED_PENDING
\* if (file->isRollbackOn()): made in every iteration, before the status is read
beginRollbackCheck(f) == rollback_on[f]

\* a rollback exit that returns with the file mutex still locked
beginDenyRollback_NoUnlock(m, f) == m
\* what the rollback exit leaves of the file mutex this thread has just locked
beginDenyRollback(m, f) == mutexUnlock(m, f)
\* a begin that starts over with the file mutex still locked
beginStartOver_NoUnlock(m, f) == m
\* what the removal-pending retry leaves of it
beginStartOver(m, f) == mutexUnlock(m, f)

\* mutexLock, fdb_sync_db_header, the rollback check and the file status
\* check, with the mutexUnlock of the rollback exit and of the retry
begin_Lock(t) ==
    LET h == th[t].h
        f == FileOf(h)
        locked == mutexLock(file_mutex, f, t)
    IN  /\ At(t, "b_lock")
        /\ file_mutex[f] = NoThread
        /\ fdb_sync_db_header(h)
        /\ IF beginRollbackCheck(f)
             THEN /\ file_mutex' = beginDenyRollback(locked, f)
                  /\ Goto(t, "b_deny")
             ELSE IF file_status[f] = FILE_REMOVED_PENDING
             THEN /\ file_mutex' = beginStartOver(locked, f)
                  /\ Retry(t, "b_reopen")
             ELSE /\ file_mutex' = locked
                  /\ Goto(t, "b_new")
        /\ UNCHANGED <<handle_txn, handle_busy, file_status, rollback_on,
                       file_header, txnVars, ubVars, countVars, itemVars>>

\* END_HANDLE_BUSY(handle); return FDB_RESULT_FAIL_BY_ROLLBACK; the file mutex
\* has been unlocked already
begin_Deny(t) ==
    /\ At(t, "b_deny")
    /\ handle_busy' = END_HANDLE_BUSY(handle_busy, th[t].h)
    /\ Return(t, FDB_RESULT_FAIL_BY_ROLLBACK)
    /\ UNCHANGED <<handle_txn, last_hdr_bid, cur_header_revnum, fileVars,
                   txnVars, ubVars, countVars, itemVars>>

\* a header anchor that ignores the file status
txn_hdr_bid_Always(h) == last_hdr_bid[h]
\* the header anchor: handle->last_hdr_bid unless the file is FILE_COMPACT_OLD
txn_hdr_bid(h) ==
    IF file_status[FileOf(h)] # FILE_COMPACT_OLD THEN last_hdr_bid[h]
    ELSE BLK_NOT_FOUND

\* handle->txn = new FdbTransaction(...)
begin_New(t) ==
    LET h == th[t].h IN
    /\ At(t, "b_new")
    /\ txns' = Append(txns, FdbTransaction(h, txn_hdr_bid(h), cur_header_revnum[h]))
    /\ wal_entries' = Append(wal_entries, 0)
    /\ transaction_id' = NextTransactionId(transaction_id)
    /\ handle_txn' = [handle_txn EXCEPT ![h] = Len(txns) + 1]
    /\ th' = [th EXCEPT ![t].pc = "b_add", ![t].stores = @ + 1] /\ UNCHANGED last
    /\ UNCHANGED <<handle_busy, last_hdr_bid, cur_header_revnum, fileVars,
                   wal_txn_list, ubVars, countVars, itemVars>>

\* a registration made twice
beginRegister_Twice(list, x) == addTransaction_Wal(addTransaction_Wal(list, x), x)
\* the addTransaction_Wal call beginTransaction makes on list for transaction x
beginRegister(list, x) == addTransaction_Wal(list, x)

\* file->getWal()->addTransaction_Wal(handle->txn)
begin_Add(t) ==
    LET h == th[t].h
        f == FileOf(h)
    IN  /\ At(t, "b_add")
        /\ wal_txn_list' = [wal_txn_list EXCEPT ![f] = beginRegister(@, handle_txn[h])]
        /\ th' = [th EXCEPT ![t].pc = "b_unlock",
                            ![t].adds = @ + Len(wal_txn_list'[f]) - Len(wal_txn_list[f])] /\ UNCHANGED last
        /\ UNCHANGED <<handleVars, fileVars, transaction_id, txns, wal_entries,
                       ubVars, countVars, itemVars>>

\* file->mutexUnlock();
begin_Unlock(t) ==
    /\ At(t, "b_unlock")
    /\ file_mutex' = mutexUnlock(file_mutex, FileOf(th[t].h))
    /\ Goto(t, "b_end")
    /\ UNCHANGED <<handleVars, file_status, rollback_on, file_header, txnVars,
                   ubVars, countVars, itemVars>>

\* END_HANDLE_BUSY(handle); return status;
begin_Return(t) ==
    /\ At(t, "b_end")
    /\ handle_busy' = END_HANDLE_BUSY(handle_busy, th[t].h)
    /\ Return(t, FDB_RESULT_SUCCESS)
    /\ UNCHANGED <<handle_txn, last_hdr_bid, cur_header_revnum, fileVars,
                   txnVars, ubVars, countVars, itemVars>>

\* ------------------------------------------------------- abortTransaction
\* the call and its precondition checks
abortTransaction(t, h) ==
    /\ CanCall(t)
    /\ Enter(t, OpAbort, h, abortPrecondition(h, SlotOf(h), KvsOf(h)), "a_busy")
    /\ ncalls' = ncalls + 1
    /\ UNCHANGED <<handleVars, fileVars, txnVars, ubVars, nenv, nwrites, itemVars>>

\* if (!BEGIN_HANDLE_BUSY(handle)) return FDB_RESULT_HANDLE_BUSY;
abort_HandleBusy(t) ==
    /\ At(t, "a_busy")
    /\ IF handle_busy[th[t].h] # NoThread
         THEN Return(t, FDB_RESULT_HANDLE_BUSY) /\ UNCHANGED handle_busy
         ELSE Goto(t, "a_reopen")
              /\ handle_busy' = BEGIN_HANDLE_BUSY(handle_busy, th[t].h, t)
    /\ UNCHANGED <<handle_txn, last_hdr_bid, cur_header_revnum, fileVars,
                   txnVars, ubVars, countVars, itemVars>>

\* status = fdb_check_file_reopen(handle, NULL), and the exit when it fails
abort_Reopen(t) ==
    /\ At(t, "a_reopen")
    /\ \E status \in fdb_check_file_reopen :
         IF status # FDB_RESULT_SUCCESS
           THEN Return(t, status)
                /\ handle_busy' = END_HANDLE_BUSY(handle_busy, th[t].h)
           ELSE Goto(t, "a_lock") /\ UNCHANGED handle_busy
    /\ UNCHANGED <<handle_txn, last_hdr_bid, cur_header_revnum, fileVars,
                   txnVars, ubVars, countVars, itemVars>>

\* an abort that starts over with the file mutex still locked
abortStartOver_NoUnlock(m, f) == m
\* what the removal-pending retry leaves of the file mutex just locked
abortStartOver(m, f) == mutexUnlock(m, f)

\* an abort that is denied during rollback, as begin is
abort_Lock_DenyRollback(t) ==
    LET h == th[t].h
        f == FileOf(h)
        locked == mutexLock(file_mutex, f, t)
    IN  /\ At(t, "a_lock")
        /\ file_mutex[f] = NoThread
        /\ fdb_sync_db_header(h)
        /\ IF rollback_on[f]
             THEN /\ file_mutex' = mutexUnlock(locked, f)
                  /\ handle_busy' = END_HANDLE_BUSY(handle_busy, h)
                  /\ Return(t, FDB_RESULT_FAIL_BY_ROLLBACK)
             ELSE IF file_status[f] = FILE_REMOVED_PENDING
             THEN /\ file_mutex' = abortStartOver(locked, f) /\ Retry(t, "a_reopen")
                  /\ UNCHANGED handle_busy
             ELSE /\ file_mutex' = locked /\ Goto(t, "a_discard")
                  /\ UNCHANGED handle_busy
        /\ UNCHANGED <<handle_txn, file_status, rollback_on,
                       file_header, txnVars, ubVars, countVars, itemVars>>

\* mutexLock, fdb_sync_db_header and the file status check
abort_Lock(t) ==
    LET h == th[t].h
        f == FileOf(h)
        locked == mutexLock(file_mutex, f, t)
    IN  /\ At(t, "a_lock")
        /\ file_mutex[f] = NoThread
        /\ fdb_sync_db_header(h)
        /\ IF file_status[f] = FILE_REMOVED_PENDING
             THEN file_mutex' = abortStartOver(locked, f) /\ Retry(t, "a_reopen")
             ELSE file_mutex' = locked /\ Goto(t, "a_discard")
        /\ UNCHANGED <<handle_txn, handle_busy, file_status, rollback_on,
                       file_header, txnVars, ubVars, countVars, itemVars>>

\* A statement that uses handle->txn finds it cleared by another operation,
\* or the transaction deleted: a null dereference or a use of freed memory.
\* The process dies, or the statement has no effect.
UseOfClearedSlot(t, l) ==
    /\ null_deref' = TRUE
    /\ \/ crashed' = TRUE /\ UNCHANGED <<th, last>>
       \/ UNCHANGED crashed /\ Goto(t, l)

\* an abort that deregisters without discarding
abortDiscard_Skipped(entries, x) == entries
\* the WAL entries abortTransaction leaves for transaction x
abortDiscard(entries, x) == discardTxnEntries_Wal(entries, x)

\* file->getWal()->discardTxnEntries_Wal(handle->txn)
abort_Discard(t) ==
    LET x == handle_txn[th[t].h] IN
    /\ At(t, "a_discard")
    /\ IF x = NoTxn
         THEN UseOfClearedSlot(t, "a_remove") /\ UNCHANGED wal_entries
         ELSE /\ wal_entries' = abortDiscard(wal_entries, x)
              /\ th' = [th EXCEPT ![t].pc = "a_remove", ![t].target = x] /\ UNCHANGED last
              /\ UNCHANGED ubVars
    /\ UNCHANGED <<handleVars, fileVars, transaction_id, txns, wal_txn_list,
                   countVars, itemVars>>

\* file->getWal()->removeTransaction_Wal(handle->txn)
abort_Remove(t) ==
    LET h == th[t].h
        x == handle_txn[h]
    IN  /\ At(t, "a_remove")
        /\ wal_txn_list' = IF x = NoTxn THEN wal_txn_list
                           ELSE [wal_txn_list EXCEPT
                                   ![FileOf(h)] = removeTransaction_Wal(@, x)]
        /\ Goto(t, "a_free")
        /\ UNCHANGED <<handleVars, fileVars, transaction_id, txns, wal_entries,
                       ubVars, countVars, itemVars>>

\* free(handle->txn->wrapper); delete handle->txn; the slot keeps the
\* pointer to the deleted transaction until the next statement
abort_Free(t) ==
    LET h == th[t].h
        x == handle_txn[h]
    IN  /\ At(t, "a_free")
        /\ IF x = NoTxn
             THEN UseOfClearedSlot(t, "a_clear") /\ UNCHANGED txns
             ELSE /\ txns' = [txns EXCEPT ![x].destroyed = @ + 1]
                  /\ Goto(t, "a_clear")
                  /\ UNCHANGED ubVars
        /\ UNCHANGED <<handleVars, fileVars, transaction_id, wal_txn_list,
                       wal_entries, countVars, itemVars>>

\* handle->txn = NULL;
abort_Clear(t) ==
    /\ At(t, "a_clear")
    /\ handle_txn' = [handle_txn EXCEPT ![th[t].h] = NoTxn]
    /\ th' = [th EXCEPT ![t].pc = "a_unlock", ![t].stores = @ + 1] /\ UNCHANGED last
    /\ UNCHANGED <<handle_busy, last_hdr_bid, cur_header_revnum, fileVars,
                   txnVars, ubVars, countVars, itemVars>>

\* file->mutexUnlock();
abort_Unlock(t) ==
    /\ At(t, "a_unlock")
    /\ file_mutex' = mutexUnlock(file_mutex, FileOf(th[t].h))
    /\ Goto(t, "a_end")
    /\ UNCHANGED <<handleVars, file_status, rollback_on, file_header, txnVars,
                   ubVars, countVars, itemVars>>

\* END_HANDLE_BUSY(handle); return status;
abort_Return(t) ==
    /\ At(t, "a_end")
    /\ handle_busy' = END_HANDLE_BUSY(handle_busy, th[t].h)
    /\ Return(t, FDB_RESULT_SUCCESS)
    /\ UNCHANGED <<handle_txn, last_hdr_bid, cur_header_revnum, fileVars,
                   txnVars, ubVars, countVars, itemVars>>

\* --------------------------------------------------------- endTransaction
\* the call and its precondition checks
endTransaction(t, h) ==
    /\ CanCall(t)
    /\ Enter(t, OpEnd, h, endPrecondition(h, SlotOf(h), KvsOf(h)), "e_count")
    /\ ncalls' = ncalls + 1
    /\ UNCHANGED <<handleVars, fileVars, txnVars, ubVars, nenv, nwrites, itemVars>>

\* an end that never calls the commit delegate
endNeedsCommit_Never(cnt) == FALSE
\* if (handle->txn->getItemCount()): the commit delegate is called for cnt items
endNeedsCommit(cnt) == cnt # 0

\* the statement end goes to with the item count getItemCount has returned
endAfterCount(t, cnt) ==
    /\ th' = [th EXCEPT ![t].pc = IF endNeedsCommit(cnt) THEN "e_commit" ELSE "e_reopen",
                        ![t].cnt = cnt, ![t].txn = NoTxn]
    /\ UNCHANGED last

\* handle->txn of line 292, evaluated with no lock and no busy guard: the
\* value getItemCount is called on
end_ItemCount(t) ==
    /\ At(t, "e_count")
    /\ th' = [th EXCEPT ![t].pc = "e_cnt_lock", ![t].txn = handle_txn[th[t].h]]
    /\ UNCHANGED <<last, handleVars, fileVars, txnVars, ubVars, countVars, itemVars>>

\* the transaction x exists: x is neither NULL nor deleted
LiveTxn(x) == x # NoTxn /\ txns[x].destroyed = 0
\* the threads inside getItemCount of transaction x between spin_lock and
\* spin_unlock
TxnLockHolders(x) ==
    {u \in Threads : th[u].pc \in {"e_cnt_read", "e_cnt_unlock"} /\ th[u].txn = x}
\* spin_lock(&txn_lock) of getItemCount, on the transaction loaded at line
\* 292, which may have been cleared from the slot or deleted since
end_CountLock(t) ==
    LET x == th[t].txn IN
    /\ At(t, "e_cnt_lock")
    /\ IF LiveTxn(x)
         THEN /\ TxnLockHolders(x) = {}
              /\ Goto(t, "e_cnt_read")
              /\ UNCHANGED ubVars
         ELSE UseOfClearedSlot(t, "e_cnt_read")
    /\ UNCHANGED <<handleVars, fileVars, txnVars, countVars, itemVars>>

\* if (txn_items) ret = txn_items->getItemCount(); the count read from a
\* deleted transaction is any value, if the process survives it
end_CountRead(t) ==
    LET x == th[t].txn IN
    /\ At(t, "e_cnt_read")
    /\ IF LiveTxn(x)
         THEN /\ th' = [th EXCEPT ![t].pc = "e_cnt_unlock",
                                  ![t].cnt = getItemCount(txns[x])]
              /\ UNCHANGED <<last, ubVars>>
         ELSE /\ null_deref' = TRUE
              /\ \/ crashed' = TRUE /\ UNCHANGED <<th, last>>
                 \/ /\ UNCHANGED <<crashed, last>>
                    /\ \E cnt \in {0, 1} :
                         th' = [th EXCEPT ![t].pc = "e_cnt_unlock", ![t].cnt = cnt]
    /\ UNCHANGED <<handleVars, fileVars, txnVars, countVars, itemVars>>

\* spin_unlock(&txn_lock); return ret; and the test of line 292 on the count
end_CountUnlock(t) ==
    LET x == th[t].txn IN
    /\ At(t, "e_cnt_unlock")
    /\ IF LiveTxn(x)
         THEN endAfterCount(t, th[t].cnt) /\ UNCHANGED ubVars
         ELSE /\ null_deref' = TRUE
              /\ \/ crashed' = TRUE /\ UNCHANGED <<th, last>>
                 \/ UNCHANGED crashed /\ endAfterCount(t, th[t].cnt)
    /\ UNCHANGED <<handleVars, fileVars, txnVars, countVars, itemVars>>

\* an end that deregisters whatever the commit returned
endProceeds_Always(fs) == TRUE
\* if (fs == FDB_RESULT_SUCCESS): end goes on to deregister the transaction
endProceeds(fs) == fs = FDB_RESULT_SUCCESS

\* fs = commitWithKVHandle(handle, opt, sync): on success the entries of the
\* handle's transaction are committed and the file has a new header
end_Commit(t) ==
    LET h == th[t].h
        f == FileOf(h)
        x == handle_txn[h]
    IN  /\ At(t, "e_commit")
        /\ file_mutex[f] = NoThread
        /\ \E fs \in commitWithKVHandle :
             /\ IF fs = FDB_RESULT_SUCCESS
                  THEN /\ wal_entries' = IF x = NoTxn THEN wal_entries
                                         ELSE [wal_entries EXCEPT ![x] = 0]
                       /\ file_header' = [file_header EXCEPT ![f] = @ + 1]
                  ELSE UNCHANGED <<wal_entries, file_header>>
             /\ IF endProceeds(fs)
                  THEN th' = [th EXCEPT ![t].pc = "e_reopen", ![t].fs = fs]
                       /\ UNCHANGED last
                  ELSE Return(t, fs)
        /\ UNCHANGED <<handleVars, file_mutex, file_status, rollback_on,
                       transaction_id, txns, wal_txn_list, ubVars, countVars, itemVars>>

\* an end that clears the slot before it returns the reopen failure
end_Reopen_ClearsSlot(t) ==
    /\ At(t, "e_reopen")
    /\ \E fs \in fdb_check_file_reopen :
         IF fs # FDB_RESULT_SUCCESS
           THEN Return(t, fs) /\ handle_txn' = [handle_txn EXCEPT ![th[t].h] = NoTxn]
           ELSE Goto(t, "e_lock") /\ UNCHANGED handle_txn
    /\ UNCHANGED <<handle_busy, last_hdr_bid, cur_header_revnum, fileVars,
                   txnVars, ubVars, countVars, itemVars>>
\* fs = fdb_check_file_reopen(handle, NULL); if (fs != SUCCESS) return fs;
end_Reopen(t) ==
    /\ At(t, "e_reopen")
    /\ \E fs \in fdb_check_file_reopen :
         IF fs # FDB_RESULT_SUCCESS THEN Return(t, fs) ELSE Goto(t, "e_lock")
    /\ UNCHANGED <<handleVars, fileVars, txnVars, ubVars, countVars, itemVars>>

\* an end that starts over with the file mutex still locked
endStartOver_NoUnlock(m, f) == m
\* what the removal-pending retry leaves of the file mutex just locked
endStartOver(m, f) == mutexUnlock(m, f)

\* mutexLock, fdb_sync_db_header and the file status check
end_Lock(t) ==
    LET h == th[t].h
        f == FileOf(h)
        locked == mutexLock(file_mutex, f, t)
    IN  /\ At(t, "e_lock")
        /\ file_mutex[f] = NoThread
        /\ fdb_sync_db_header(h)
        /\ IF file_status[f] = FILE_REMOVED_PENDING
             THEN file_mutex' = endStartOver(locked, f) /\ Retry(t, "e_reopen")
             ELSE file_mutex' = locked /\ Goto(t, "e_remove")
        /\ UNCHANGED <<handle_txn, handle_busy, file_status, rollback_on,
                       file_header, txnVars, ubVars, countVars, itemVars>>

\* file->getWal()->removeTransaction_Wal(handle->txn)
end_Remove(t) ==
    LET h == th[t].h
        x == handle_txn[h]
    IN  /\ At(t, "e_remove")
        /\ IF x = NoTxn
             THEN UseOfClearedSlot(t, "e_free") /\ UNCHANGED wal_txn_list
             ELSE /\ wal_txn_list' = [wal_txn_list EXCEPT
                                        ![FileOf(h)] = removeTransaction_Wal(@, x)]
                  /\ th' = [th EXCEPT ![t].pc = "e_free", ![t].target = x] /\ UNCHANGED last
                  /\ UNCHANGED ubVars
        /\ UNCHANGED <<handleVars, fileVars, transaction_id, txns, wal_entries,
                       countVars, itemVars>>

\* free(handle->txn->wrapper); delete handle->txn; the slot keeps the
\* pointer to the deleted transaction until the next statement
end_Free(t) ==
    LET h == th[t].h
        x == handle_txn[h]
    IN  /\ At(t, "e_free")
        /\ IF x = NoTxn
             THEN UseOfClearedSlot(t, "e_clear") /\ UNCHANGED txns
             ELSE /\ txns' = [txns EXCEPT ![x].destroyed = @ + 1]
                  /\ Goto(t, "e_clear")
                  /\ UNCHANGED ubVars
        /\ UNCHANGED <<handleVars, fileVars, transaction_id, wal_txn_list,
                       wal_entries, countVars, itemVars>>

\* handle->txn = NULL;
end_Clear(t) ==
    /\ At(t, "e_clear")
    /\ handle_txn' = [handle_txn EXCEPT ![th[t].h] = NoTxn]
    /\ th' = [th EXCEPT ![t].pc = "e_unlock", ![t].stores = @ + 1] /\ UNCHANGED last
    /\ UNCHANGED <<handle_busy, last_hdr_bid, cur_header_revnum, fileVars,
                   txnVars, ubVars, countVars, itemVars>>

\* file->mutexUnlock(); return fs;
end_Unlock(t) ==
    /\ At(t, "e_unlock")
    /\ file_mutex' = mutexUnlock(file_mutex, FileOf(th[t].h))
    /\ Return(t, FDB_RESULT_SUCCESS)
    /\ UNCHANGED <<handleVars, file_status, rollback_on, file_header,
                   txnVars, ubVars, countVars, itemVars>>

\* ------------------------------------------------ the rest of the engine
\* another component moves the file to a new status, under the file mutex
SetFileStatus(f, s) ==
    /\ ~crashed /\ nenv < MaxEnv
    /\ file_mutex[f] = NoThread
    /\ s # file_status[f]
    /\ file_status' = [file_status EXCEPT ![f] = s]
    /\ nenv' = nenv + 1
    /\ UNCHANGED <<th, last, handleVars, file_mutex, rollback_on, file_header,
                   txnVars, ubVars, ncalls, nwrites, itemVars>>

\* a rollback starts or finishes, under the file mutex
SetRollback(f) ==
    /\ ~crashed /\ nenv < MaxEnv
    /\ file_mutex[f] = NoThread
    /\ rollback_on' = [rollback_on EXCEPT ![f] = ~@]
    /\ nenv' = nenv + 1
    /\ UNCHANGED <<th, last, handleVars, file_mutex, file_status, file_header,
                   txnVars, ubVars, ncalls, nwrites, itemVars>>

\* a write through handle h under its transaction: a mutating handle operation
\* (it needs the busy guard) that adds one WAL entry and one transaction item;
\* under the transaction's txn_lock; on a transaction an end has just deleted
\* it is a use of freed memory (the process dies, or the write has no effect)
Write(h) ==
    LET x == handle_txn[h] IN
    /\ ~crashed /\ nwrites < MaxWrites
    /\ handle_busy[h] = NoThread
    /\ x # NoTxn
    /\ IF txns[x].destroyed = 0
         THEN /\ TxnLockHolders(x) = {}
              /\ txns' = [txns EXCEPT ![x] = addTxnItem(@, nwrites + 1)]
              /\ wal_entries' = [wal_entries EXCEPT ![x] = @ + 1]
              /\ UNCHANGED ubVars
         ELSE /\ null_deref' = TRUE
              /\ crashed' \in BOOLEAN
              /\ UNCHANGED <<txns, wal_entries>>
    /\ nwrites' = nwrites + 1
    /\ UNCHANGED <<th, last, handleVars, fileVars, transaction_id, wal_txn_list,
                   ncalls, nenv, itemVars>>

\* the steps a thread takes inside a call
Step(t) ==
    \/ begin_HandleBusy(t) \/ begin_Reopen(t) \/ begin_Lock(t)
    \/ begin_Deny(t) \/ begin_New(t) \/ begin_Add(t) \/ begin_Unlock(t)
    \/ begin_Return(t)
    \/ abort_HandleBusy(t) \/ abort_Reopen(t) \/ abort_Lock(t)
    \/ abort_Discard(t) \/ abort_Remove(t) \/ abort_Free(t) \/ abort_Clear(t)
    \/ abort_Unlock(t) \/ abort_Return(t)
    \/ end_ItemCount(t) \/ end_CountLock(t) \/ end_CountRead(t)
    \/ end_CountUnlock(t) \/ end_Commit(t) \/ end_Reopen(t) \/ end_Lock(t)
    \/ end_Remove(t) \/ end_Free(t) \/ end_Clear(t) \/ end_Unlock(t)

\* One file and its root handle, the file changing status and rollback state.
Next ==
    \/ \E t \in Threads : beginTransaction(t, "hr")
    \/ \E t \in Threads : abortTransaction(t, "hr")
    \/ \E t \in Threads : endTransaction(t, "hr")
    \/ \E t \in Threads : Step(t)
    \/ \E s \in FileStatuses : SetFileStatus("f1", s)
    \/ SetRollback("f1")
    \/ Write("hr")

Spec == Init /\ [][Next]_vars

\* One file with its handles: the root handle and a sub-keyspace handle of a
\* multi-keyspace file, and the null file handle; rollbacks start and finish.
OneFileHandles == {"hr", "hs", NullFhandle}
NextSub ==
    \/ \E t \in Threads, h \in OneFileHandles : beginTransaction(t, h)
    \/ \E t \in Threads, h \in OneFileHandles : abortTransaction(t, h)
    \/ \E t \in Threads, h \in OneFileHandles : endTransaction(t, h)
    \/ \E t \in Threads : Step(t)
    \/ SetRollback("f1")
    \/ Write("hr")

SpecSub == Init /\ [][NextSub]_vars

\* Two files: the root handles of two files, which share neither a busy
\* guard nor a file mutex, only the transaction_id counter; rollbacks start
\* and finish on either file.
TwoFileHandles == {"hr", "h2"}
NextTwoFiles ==
    \/ \E t \in Threads, h \in TwoFileHandles : beginTransaction(t, h)
    \/ \E t \in Threads, h \in TwoFileHandles : abortTransaction(t, h)
    \/ \E t \in Threads, h \in TwoFileHandles : endTransaction(t, h)
    \/ \E t \in Threads : Step(t)
    \/ \E f \in Files : SetRollback(f)
    \/ \E h \in TwoFileHandles : Write(h)

SpecTwoFiles == Init /\ [][NextTwoFiles]_vars

\* Fair scheduling: the calls of two threads on the root handle of one file,
\* the file changing status and rollback state; a thread that can take a
\* step of its call eventually takes one.
NextFair ==
    \/ \E t \in Threads : ncalls < MaxFairCalls /\ beginTransaction(t, "hr")
    \/ \E t \in Threads : ncalls < MaxFairCalls /\ abortTransaction(t, "hr")
    \/ \E t \in Threads : ncalls < MaxFairCalls /\ endTransaction(t, "hr")
    \/ \E t \in Threads : Step(t)
    \/ \E s \in FileStatuses : SetFileStatus("f1", s)
    \/ SetRollback("f1")
    \/ Write("hr")

SpecFair == Init /\ [][NextFair]_vars /\ \A t \in Threads : WF_vars(Step(t))

\* ------------------------------------------------ the item list of a transaction
\* The item-list calls work on the transaction of handle hr, begun and not
\* yet ended. The lifecycle state does not change meanwhile.
ItemTxn == handle_txn["hr"]
txn_items == txns[ItemTxn].txn_items
nonItemVars == <<th, handleVars, fileVars, transaction_id, wal_txn_list,
                 wal_entries, last, countVars>>

\* TxnItemList::addItem(item, old_item): appends the item, which gets the
\* index of its slot
addItem(list, item) == Append(list, item)
\* TxnItemList::getItemCount(): the number of slots
listItemCount(list) == Len(list)

ItemCanCall(t) == ~crashed /\ ith[t].pc = "idle" /\ nitemops < MaxItemOps
ItemAt(t, l) == ~crashed /\ ith[t].pc = l
ItemGoto(t, l) == ith' = [ith EXCEPT ![t].pc = l]
ItemCall(t, o, i, l) ==
    /\ ItemCanCall(t)
    /\ ith' = [ith EXCEPT ![t] = [IdleItemThread EXCEPT !.pc = l, !.op = o, !.item = i]]
    /\ nitemops' = nitemops + 1
\* spin_lock(&txn_lock)
spin_lock(t) == txn_lock = NoThread /\ txn_lock' = t
\* spin_unlock(&txn_lock) and the return
ItemReturn(t) ==
    /\ txn_lock' = NoThread
    /\ ilast' = [t |-> t, op |-> ith[t].op, item |-> ith[t].item,
                 ret |-> ith[t].ret, ord |-> ith[t].ord]
    /\ ith' = [ith EXCEPT ![t] = IdleItemThread]
SetItems(v) == txns' = [txns EXCEPT ![ItemTxn].txn_items = v]

\* ----- addTxnItem(item, old_item)
addTxnItem_Call(t, i) ==
    /\ ItemCall(t, OpAdd, i, "ad_lock")
    /\ passed' = passed \cup {i}
    /\ UNCHANGED <<nonItemVars, txns, ubVars, txn_lock, list_freed, dwq_index,
                   stable, ilast, lock_order, discarded>>

addTxnItem_Lock(t) ==
    /\ ItemAt(t, "ad_lock")
    /\ spin_lock(t)
    /\ ith' = [ith EXCEPT ![t].pc = "ad_create", ![t].ord = lock_order]
    /\ lock_order' = lock_order + 1
    /\ UNCHANGED <<nonItemVars, txns, ubVars, list_freed, dwq_index, stable,
                   ilast, discarded, passed, nitemops>>

\* if (!txn_items) txn_items = new TxnItemList(this);
addTxnItem_Create(t) ==
    /\ ItemAt(t, "ad_create")
    /\ IF txn_items = NullList THEN SetItems(<< <<>> >>) ELSE UNCHANGED txns
    /\ ItemGoto(t, "ad_add")
    /\ UNCHANGED <<nonItemVars, ubVars, txn_lock, list_freed, dwq_index, stable,
                   ilast, lock_order, discarded, passed, nitemops>>

\* idx = txn_items->addItem(item, old_item);
addTxnItem_AddItem(t) ==
    LET list == txn_items[1]
        idx == listItemCount(list)
    IN  /\ ItemAt(t, "ad_add")
        /\ SetItems(<<addItem(list, ith[t].item)>>)
        /\ dwq_index' = [dwq_index EXCEPT ![ith[t].item] = idx]
        /\ ith' = [ith EXCEPT ![t].pc = "ad_unlock", ![t].ret = idx]
        /\ UNCHANGED <<nonItemVars, ubVars, txn_lock, list_freed, stable, ilast,
                       lock_order, discarded, passed, nitemops>>

\* spin_unlock(&txn_lock); return idx;
addTxnItem_Unlock(t) ==
    /\ ItemAt(t, "ad_unlock")
    /\ ItemReturn(t)
    /\ stable' = txn_items
    /\ UNCHANGED <<nonItemVars, txns, ubVars, list_freed, dwq_index, lock_order,
                   discarded, passed, nitemops>>

\* ----- resetTxnItem(item)
resetTxnItem_Call(t, i) ==
    /\ ItemCall(t, OpResetItem, i, "ri_lock")
    /\ UNCHANGED <<nonItemVars, txns, ubVars, txn_lock, list_freed, dwq_index,
                   stable, ilast, lock_order, discarded, passed>>

resetTxnItem_Lock(t) ==
    /\ ItemAt(t, "ri_lock")
    /\ spin_lock(t)
    /\ ItemGoto(t, "ri_slot")
    /\ UNCHANGED <<nonItemVars, txns, ubVars, list_freed, dwq_index, stable,
                   ilast, lock_order, discarded, passed, nitemops>>

\* a slot that is erased from the list, the later slots moving down
resetSlot_Erase(list, idx) ==
    SubSeq(list, 1, idx) \o SubSeq(list, idx + 2, Len(list))
\* items.at(idx) = nullptr
resetSlot(list, idx) == [list EXCEPT ![idx + 1] = NullItem]

\* txn_items->items.at(item->dwq_index) = nullptr; with no list this is a
\* null dereference (the process dies, or the statement has no effect), and
\* with an index that is no slot of the list at() throws out of the call,
\* txn_lock still locked
resetTxnItem_Slot(t) ==
    LET idx == dwq_index[ith[t].item] IN
    /\ ItemAt(t, "ri_slot")
    /\ IF txn_items = NullList
         THEN /\ null_deref' = TRUE
              /\ \/ crashed' = TRUE /\ UNCHANGED ith
                 \/ UNCHANGED crashed /\ ItemGoto(t, "ri_index")
              /\ UNCHANGED txns
         ELSE IF idx < 0 \/ idx >= listItemCount(txn_items[1])
         THEN ItemGoto(t, "ri_thrown") /\ UNCHANGED <<txns, ubVars>>
         ELSE /\ SetItems(<<resetSlot(txn_items[1], idx)>>)
              /\ ith' = [ith EXCEPT ![t].pc = "ri_index", ![t].ret = idx]
              /\ UNCHANGED ubVars
    /\ UNCHANGED <<nonItemVars, txn_lock, list_freed, dwq_index, stable, ilast,
                   lock_order, discarded, passed, nitemops>>

\* item->dwq_index = uint64_t(-1);
resetTxnItem_Index(t) ==
    /\ ItemAt(t, "ri_index")
    /\ dwq_index' = [dwq_index EXCEPT ![ith[t].item] = NoDwqIndex]
    /\ ItemGoto(t, "ri_unlock")
    /\ UNCHANGED <<nonItemVars, txns, ubVars, txn_lock, list_freed, stable,
                   ilast, lock_order, discarded, passed, nitemops>>

resetTxnItem_Unlock(t) ==
    /\ ItemAt(t, "ri_unlock")
    /\ ItemReturn(t)
    /\ stable' = txn_items
    /\ UNCHANGED <<nonItemVars, txns, ubVars, list_freed, dwq_index, lock_order,
                   discarded, passed, nitemops>>

\* ----- resetTxnItems()
resetTxnItems_Call(t) ==
    /\ ItemCall(t, OpResetItems, NullItem, "rs_lock")
    /\ UNCHANGED <<nonItemVars, txns, ubVars, txn_lock, list_freed, dwq_index,
                   stable, ilast, lock_order, discarded, passed>>

resetTxnItems_Lock(t) ==
    /\ ItemAt(t, "rs_lock")
    /\ spin_lock(t)
    /\ ItemGoto(t, "rs_delete")
    /\ UNCHANGED <<nonItemVars, txns, ubVars, list_freed, dwq_index, stable,
                   ilast, lock_order, discarded, passed, nitemops>>

\* delete txn_items; (of a null pointer: no effect)
resetTxnItems_Delete(t) ==
    /\ ItemAt(t, "rs_delete")
    /\ list_freed' = (txn_items # NullList)
    /\ ItemGoto(t, "rs_null")
    /\ UNCHANGED <<nonItemVars, txns, ubVars, txn_lock, dwq_index, stable, ilast,
                   lock_order, discarded, passed, nitemops>>

\* txn_items = nullptr;
resetTxnItems_Null(t) ==
    /\ ItemAt(t, "rs_null")
    /\ SetItems(NullList)
    /\ list_freed' = FALSE
    /\ discarded' = TRUE
    /\ ItemGoto(t, "rs_unlock")
    /\ UNCHANGED <<nonItemVars, ubVars, txn_lock, dwq_index, stable, ilast,
                   lock_order, passed, nitemops>>

resetTxnItems_Unlock(t) ==
    /\ ItemAt(t, "rs_unlock")
    /\ ItemReturn(t)
    /\ stable' = txn_items
    /\ UNCHANGED <<nonItemVars, txns, ubVars, list_freed, dwq_index, lock_order,
                   discarded, passed, nitemops>>

\* ----- getItemCount()
getItemCount_Call(t) ==
    /\ ItemCall(t, OpCount, NullItem, "gc_lock")
    /\ UNCHANGED <<nonItemVars, txns, ubVars, txn_lock, list_freed, dwq_index,
                   stable, ilast, lock_order, discarded, passed>>

\* a getItemCount that does not take txn_lock
getItemCount_Lock_NoLock(t) ==
    /\ ItemAt(t, "gc_lock")
    /\ ItemGoto(t, "gc_read")
    /\ UNCHANGED <<nonItemVars, txns, ubVars, txn_lock, list_freed, dwq_index,
                   stable, ilast, lock_order, discarded, passed, nitemops>>
\* size_t ret = 0; spin_lock(&txn_lock);
getItemCount_Lock(t) ==
    /\ ItemAt(t, "gc_lock")
    /\ spin_lock(t)
    /\ ItemGoto(t, "gc_read")
    /\ UNCHANGED <<nonItemVars, txns, ubVars, list_freed, dwq_index, stable,
                   ilast, lock_order, discarded, passed, nitemops>>

\* if (txn_items) ret = txn_items->getItemCount(); the count of a list that
\* has been deleted is any value
getItemCount_Read(t) ==
    /\ ItemAt(t, "gc_read")
    /\ \E n \in 0..MaxItems :
         /\ n = IF txn_items = NullList THEN 0
                ELSE IF list_freed THEN n
                ELSE listItemCount(txn_items[1])
         /\ ith' = [ith EXCEPT ![t].pc = "gc_unlock", ![t].ret = n]
    /\ UNCHANGED <<nonItemVars, txns, ubVars, txn_lock, list_freed, dwq_index,
                   stable, ilast, lock_order, discarded, passed, nitemops>>

getItemCount_Unlock(t) ==
    /\ ItemAt(t, "gc_unlock")
    /\ ItemReturn(t)
    /\ UNCHANGED <<nonItemVars, txns, ubVars, list_freed, dwq_index, stable,
                   lock_order, discarded, passed, nitemops>>

\* ----- getItemList()
getItemList_Call(t) ==
    /\ ItemCall(t, OpList, NullItem, "gl_lock")
    /\ UNCHANGED <<nonItemVars, txns, ubVars, txn_lock, list_freed, dwq_index,
                   stable, ilast, lock_order, discarded, passed>>

\* TxnItemList *ret = nullptr; spin_lock(&txn_lock);
getItemList_Lock(t) ==
    /\ ItemAt(t, "gl_lock")
    /\ spin_lock(t)
    /\ ItemGoto(t, "gl_read")
    /\ UNCHANGED <<nonItemVars, txns, ubVars, list_freed, dwq_index, stable,
                   ilast, lock_order, discarded, passed, nitemops>>

\* ret = txn_items; the pointer, with what it points to at this moment
getItemList_Read(t) ==
    /\ ItemAt(t, "gl_read")
    /\ ith' = [ith EXCEPT ![t].pc = "gl_unlock",
                          ![t].ret = [ptr |-> txn_items, freed |-> list_freed]]
    /\ UNCHANGED <<nonItemVars, txns, ubVars, txn_lock, list_freed, dwq_index,
                   stable, ilast, lock_order, discarded, passed, nitemops>>

getItemList_Unlock(t) ==
    /\ ItemAt(t, "gl_unlock")
    /\ ItemReturn(t)
    /\ UNCHANGED <<nonItemVars, txns, ubVars, list_freed, dwq_index, stable,
                   lock_order, discarded, passed, nitemops>>

\* the state beginTransaction leaves: handle hr has a fresh transaction,
\* registered with the WAL of its file
InitItems ==
    /\ txns = <<[txn_id |-> 0, handle |-> "hr", prev_hdr_bid |-> HeaderBid(0),
                 prev_revnum |-> 0, txn_items |-> NullList, destroyed |-> 0]>>
    /\ th = [t \in Threads |-> IdleThread]
    /\ handle_txn = [h \in Handles |-> IF h = "hr" THEN Len(txns) ELSE NoTxn]
    /\ handle_busy = [h \in Handles |-> NoThread]
    /\ last_hdr_bid = [h \in Handles |-> IF h = "hr" THEN HeaderBid(0) ELSE 0]
    /\ cur_header_revnum = [h \in Handles |-> 0]
    /\ file_mutex = [f \in Files |-> NoThread]
    /\ file_status = [f \in Files |-> FILE_NORMAL]
    /\ rollback_on = [f \in Files |-> FALSE]
    /\ file_header = [f \in Files |-> 0]
    /\ transaction_id = NextTransactionId(0)
    /\ wal_txn_list = [f \in Files |-> IF f = "f1" THEN <<Len(txns)>> ELSE <<>>]
    /\ wal_entries = <<0>>
    /\ last = [NoCall EXCEPT !.op = OpBegin, !.h = "hr",
                             !.ret = FDB_RESULT_SUCCESS, !.adds = Len(txns),
                             !.stores = Len(txns)]
    /\ crashed = FALSE
    /\ null_deref = FALSE
    /\ ncalls = 0 /\ nenv = 0 /\ nwrites = 0
    /\ InitItemVars

NextItems ==
    \/ \E t \in Threads, i \in Items : addTxnItem_Call(t, i)
    \/ \E t \in Threads : addTxnItem_Lock(t)
    \/ \E t \in Threads : addTxnItem_Create(t)
    \/ \E t \in Threads : addTxnItem_AddItem(t)
    \/ \E t \in Threads : addTxnItem_Unlock(t)
    \/ \E t \in Threads, i \in Items : resetTxnItem_Call(t, i)
    \/ \E t \in Threads : resetTxnItem_Lock(t)
    \/ \E t \in Threads : resetTxnItem_Slot(t)
    \/ \E t \in Threads : resetTxnItem_Index(t)
    \/ \E t \in Threads : resetTxnItem_Unlock(t)
    \/ \E t \in Threads : resetTxnItems_Call(t)
    \/ \E t \in Threads : resetTxnItems_Lock(t)
    \/ \E t \in Threads : resetTxnItems_Delete(t)
    \/ \E t \in Threads : resetTxnItems_Null(t)
    \/ \E t \in Threads : resetTxnItems_Unlock(t)
    \/ \E t \in Threads : getItemCount_Call(t)
    \/ \E t \in Threads : getItemCount_Lock(t)
    \/ \E t \in Threads : getItemCount_Read(t)
    \/ \E t \in Threads : getItemCount_Unlock(t)
    \/ \E t \in Threads : getItemList_Call(t)
    \/ \E t \in Threads : getItemList_Lock(t)
    \/ \E t \in Threads : getItemList_Read(t)
    \/ \E t \in Threads : getItemList_Unlock(t)

SpecItems == InitItems /\ [][NextItems]_vars

\* ------------------------------------------------------------ properties
TxnIds == 1..Len(txns)
Registered(x) ==
    \E f \in Files : \E i \in 1..Len(wal_txn_list[f]) : wal_txn_list[f][i] = x
Registrations(x) ==
    Cardinality({<<f, i>> \in Files \X (1..(MaxCalls + 4)) :
                    i <= Len(wal_txn_list[f]) /\ wal_txn_list[f][i] = x})
\* the transactions of handle h that are live and registered with the WAL
ActiveTxns(h) ==
    {x \in TxnIds : txns[x].handle = h /\ txns[x].destroyed = 0 /\ Registered(x)}
\* the thread has taken the busy guard (begin, abort) or, for end, passed its checks
PastChecks(t) == th[t].pc \notin {"idle", "b_busy", "a_busy"}
HoldsMutexAt == {"b_new", "b_add", "b_unlock", "a_discard", "a_remove", "a_free",
                 "a_clear", "a_unlock", "e_remove", "e_free", "e_clear", "e_unlock"}
HoldsBusyAt == {"b_reopen", "b_lock", "b_deny", "b_new", "b_add", "b_unlock",
                "b_end", "a_reopen", "a_lock", "a_discard", "a_remove", "a_free",
                "a_clear", "a_unlock", "a_end"}

\* C1: a handle never has two transactions that are live and registered with
\* the WAL at the same instant.
C1_AtMostOneActive == \A h \in Handles : Cardinality(ActiveTxns(h)) <= 1

\* C2: every transaction is destroyed at most once, and no operation uses
\* handle->txn after another operation has cleared it.
C2_DestroyedOnce ==
    /\ ~null_deref
    /\ \A x \in TxnIds : txns[x].destroyed <= 1

\* C3: no two lifecycle calls are past their precondition checks on the same
\* handle at the same instant.
C3_BusySerializes ==
    \A t1, t2 \in Threads :
        (t1 # t2 /\ PastChecks(t1) /\ PastChecks(t2)) => th[t1].h # th[t2].h

\* C4: a thread that is not inside a call holds neither a busy guard nor a file
\* mutex, whatever status its call returned; a thread inside a call holds the
\* file mutex exactly at the statements between its lock and its unlock, so it
\* never unlocks a mutex it does not hold, and it holds the busy guard exactly
\* at the statements between BEGIN_HANDLE_BUSY and END_HANDLE_BUSY.
C4_LocksReleased ==
    \A t \in Threads :
        /\ \A f \in Files :
             file_mutex[f] = t <=> (th[t].pc \in HoldsMutexAt /\ f = FileOf(th[t].h))
        /\ \A h \in Handles :
             handle_busy[h] = t <=> (th[t].pc \in HoldsBusyAt /\ h = th[t].h)

\* a begin has returned FailByRollback, an exit taken with both locks acquired,
\* and every guard and mutex is free
C4_Witness ==
    /\ last.op = OpBegin /\ last.ret = FDB_RESULT_FAIL_BY_ROLLBACK
    /\ \A f \in Files : file_mutex[f] = NoThread
    /\ \A h \in Handles : handle_busy[h] = NoThread

Returned(o, s) == last.op = o /\ last.ret = s

\* C5 as stated: every lifecycle call on the sub-keyspace handle returns
\* InvalidHandle.
C5_SubAlwaysInvalid == last.h = "hs" => last.ret = FDB_RESULT_INVALID_HANDLE

\* C5, amended: the transaction slot is checked before the keyspace type. A
\* sub-keyspace handle never passes the checks and never gets a transaction,
\* so begin on it returns InvalidHandle while end and abort on it return
\* TransactionFail.
C5_SubHandleStatus ==
    /\ handle_txn["hs"] = NoTxn
    /\ \A t \in Threads : th[t].pc # "idle" => th[t].h # "hs"
    /\ last.h = "hs" =>
         last.ret = IF last.op = OpBegin THEN FDB_RESULT_INVALID_HANDLE
                    ELSE FDB_RESULT_TRANSACTION_FAIL

\* an abort on the sub-keyspace handle has returned TransactionFail
C5_Witness == last.h = "hs" /\ Returned(OpAbort, FDB_RESULT_TRANSACTION_FAIL)

sharedVars == <<handleVars, fileVars, txnVars, ubVars>>

\* C6: a begin on a handle with an active transaction, and an end or abort on
\* a handle with none, returns TransactionFail in the step that makes the
\* check, and that step changes neither the slot, the WAL, the id counter,
\* the busy guards nor the file mutexes, and leaves the thread outside a call.
C6_MismatchIsNoOp ==
    [][\A t \in Threads, h \in Handles :
         ( \/ beginTransaction(t, h) /\ handle_txn[h] # NoTxn
           \/ endTransaction(t, h) /\ handle_txn[h] = NoTxn
           \/ abortTransaction(t, h) /\ handle_txn[h] = NoTxn )
         => /\ last'.ret = FDB_RESULT_TRANSACTION_FAIL
            /\ last'.h = h
            /\ th'[t].pc = "idle"
            /\ UNCHANGED sharedVars]_vars

\* a begin on the root handle has been rejected with TransactionFail while the
\* handle has an active transaction
C6_Witness ==
    /\ last.h = "hr" /\ Returned(OpBegin, FDB_RESULT_TRANSACTION_FAIL)
    /\ handle_txn["hr"] # NoTxn

\* C7: a begin that returns Success has stored one transaction in the slot and
\* made one addTransaction_Wal call; the call is made with the file mutex
\* held, and when the begin leaves its critical section the slot is non-null
\* and holds a transaction registered exactly once. A begin that returns any
\* other status has stored nothing in the slot and added nothing to the WAL.
C7_BeginRegistersOnce ==
    /\ last.op = OpBegin =>
         IF last.ret = FDB_RESULT_SUCCESS
           THEN last.adds = 1 /\ last.stores = 1
           ELSE last.adds = 0 /\ last.stores = 0
    /\ \A t \in Threads :
         /\ th[t].pc = "b_add" =>
              /\ file_mutex[FileOf(th[t].h)] = t
              /\ th[t].adds = 0
         /\ th[t].pc = "b_unlock" =>
              /\ handle_txn[th[t].h] # NoTxn
              /\ Registrations(handle_txn[th[t].h]) = 1
              /\ th[t].adds = 1
         /\ (th[t].op = OpBegin /\ th[t].pc \notin {"b_add", "b_unlock", "b_end"}) =>
              th[t].adds = 0 /\ th[t].stores = 0

\* a begin has returned Success and its transaction is in the slot, registered
C7_Witness ==
    /\ Returned(OpBegin, FDB_RESULT_SUCCESS)
    /\ handle_txn[last.h] # NoTxn
    /\ Registrations(handle_txn[last.h]) = 1

\* the step of t returns status s
Returns(t, s) == th[t].pc # "idle" /\ th'[t].pc = "idle" /\ last'.ret = s

\* C8 as stated: begin returns FailByRollback exactly when the rollback flag is
\* set at a check made in an iteration whose file status is not RemovedPending.
C8_OnlyWhenStable ==
    [][\A t \in Threads :
         begin_Lock(t) =>
           (th'[t].pc = "b_deny"
              <=> (rollback_on[FileOf(th[t].h)]
                   /\ file_status[FileOf(th[t].h)] # FILE_REMOVED_PENDING))]_vars

\* C8, amended: begin takes its rollback exit exactly when the rollback flag
\* is set at the check made under the file mutex in any iteration of the
\* loop, whatever the file status read in that iteration, RemovedPending
\* included; the exit returns FailByRollback, and no other step of any call
\* returns it.
C8_RollbackAtCheck ==
    [][\A t \in Threads :
         /\ begin_Lock(t) =>
              (th'[t].pc = "b_deny" <=> rollback_on[FileOf(th[t].h)])
         /\ begin_Deny(t) => Returns(t, FDB_RESULT_FAIL_BY_ROLLBACK)
         /\ Returns(t, FDB_RESULT_FAIL_BY_ROLLBACK) => th[t].pc = "b_deny"]_vars

\* a begin has returned FailByRollback on a file that is RemovedPending
C8_Witness ==
    /\ Returned(OpBegin, FDB_RESULT_FAIL_BY_ROLLBACK)
    /\ file_status[FileOf(last.h)] = FILE_REMOVED_PENDING
    /\ rollback_on[FileOf(last.h)]

\* C9: of any two transactions the one constructed later has the strictly
\* greater id, whichever handles and files they were begun on.
C9_IdsIncrease ==
    \A i, j \in TxnIds : i < j => txns[i].txn_id < txns[j].txn_id

\* two begins on handles of different files are inside their critical sections
\* at the same time, both transactions constructed
C9_Witness ==
    /\ th["t1"].pc = "b_add" /\ th["t2"].pc = "b_add"
    /\ th["t1"].h # th["t2"].h
    /\ Len(txns) >= 2

\* C10: an abort discards the entries of its transaction before it removes the
\* registration, and clears the slot, all while it holds the file mutex; after
\* it has returned Success the transaction has no WAL entry and no registration.
C10_AbortLeavesNothing ==
    /\ \A t \in Threads :
         LET x == th[t].target
             h == th[t].h
         IN  /\ (th[t].pc \in {"a_remove", "a_free", "a_clear", "a_unlock"} /\ x # NoTxn) =>
                  wal_entries[x] = 0 /\ file_mutex[FileOf(h)] = t
             /\ (th[t].pc \in {"a_free", "a_clear", "a_unlock"} /\ x # NoTxn) =>
                  ~Registered(x)
             /\ th[t].pc = "a_unlock" => handle_txn[h] = NoTxn
    /\ (Returned(OpAbort, FDB_RESULT_SUCCESS) /\ last.target # NoTxn) =>
         /\ wal_entries[last.target] = 0
         /\ ~Registered(last.target)
         /\ handle_txn[last.h] # last.target

\* an abort of a transaction that had a write has returned Success
C10_Witness ==
    /\ Returned(OpAbort, FDB_RESULT_SUCCESS)
    /\ last.target # NoTxn
    /\ getItemCount(txns[last.target]) > 0
    /\ handle_txn[last.h] = NoTxn

\* C11: abort makes no rollback check. The step of an abort that locks the
\* file never returns; with a file status other than RemovedPending it goes on
\* to discard the transaction, holding the file mutex, whatever the rollback
\* flag, and the abort then returns Success. Only a begin returns
\* FailByRollback, and a begin that locks a file in rollback does return it.
C11_AbortDuringRollback ==
    [][\A t \in Threads :
         LET f == FileOf(th[t].h) IN
         /\ abort_Lock(t) =>
              /\ th'[t].pc \in {"a_reopen", "a_discard"}
              /\ file_status[f] # FILE_REMOVED_PENDING =>
                   th'[t].pc = "a_discard" /\ file_mutex'[f] = t
         /\ abort_Return(t) => Returns(t, FDB_RESULT_SUCCESS)
         /\ Returns(t, FDB_RESULT_FAIL_BY_ROLLBACK) => th[t].op = OpBegin
         /\ (begin_Lock(t) /\ rollback_on[f]) => th'[t].pc = "b_deny"
         /\ begin_Deny(t) => Returns(t, FDB_RESULT_FAIL_BY_ROLLBACK)]_vars

\* an abort has returned Success and deregistered its transaction on a file
\* whose rollback flag is set
C11_Witness ==
    /\ Returned(OpAbort, FDB_RESULT_SUCCESS)
    /\ last.target # NoTxn
    /\ ~Registered(last.target)
    /\ rollback_on[FileOf(last.h)]

\* the step of t is a commit delegate call that fails
CommitFails(t) == end_Commit(t) /\ file_header' = file_header

\* C12: when the commit delegate fails, endTransaction returns the delegate's
\* status in that very step, having stored nothing in the slot, deregistered
\* nothing and never held the file mutex; the step leaves the slot, the WAL's
\* transaction list and entries, the transactions and their item lists, the
\* busy guards and the file mutexes unchanged, so the transaction in the slot
\* is still registered and a following end or abort passes its checks.
C12_CommitFailureKeepsTxn ==
    [][\A t \in Threads :
         LET h == th[t].h IN
         /\ CommitFails(t) =>
              /\ Returns(t, CommitError)
              /\ th[t].stores = 0 /\ th[t].target = NoTxn
              /\ file_mutex[FileOf(h)] # t
              /\ UNCHANGED sharedVars
              /\ handle_txn[h] # NoTxn =>
                   /\ endPrecondition(h, handle_txn'[h], getKvsType(h)) = OK
                   /\ abortPrecondition(h, handle_txn'[h], getKvsType(h)) = OK
         /\ Returns(t, CommitError) => th[t].pc = "e_commit"]_vars

\* an end has returned the commit delegate's failure status and the handle's
\* transaction is still in the slot, registered, with its item and its entry
C12_Witness ==
    /\ Returned(OpEnd, CommitError)
    /\ handle_txn[last.h] # NoTxn
    /\ Registered(handle_txn[last.h])
    /\ getItemCount(txns[handle_txn[last.h]]) > 0
    /\ wal_entries[handle_txn[last.h]] > 0

InEndLoop == {"e_reopen", "e_lock", "e_remove", "e_free", "e_clear", "e_unlock"}

\* C13: the commit delegate is called exactly when the item count read is
\* nonzero, and endTransaction reaches its stabilization loop, the
\* deregistration and the clearing of the slot only with a zero count and no
\* commit call, or with a nonzero count and a commit that returned Success.
C13_DeregisterAfterCommit ==
    \A t \in Threads :
        /\ th[t].pc = "e_commit" => th[t].cnt # 0 /\ th[t].fs = NoStatus
        /\ th[t].pc \in InEndLoop =>
             \/ th[t].cnt = 0 /\ th[t].fs = NoStatus
             \/ th[t].cnt # 0 /\ th[t].fs = FDB_RESULT_SUCCESS

\* an end has cleared the slot after a commit of a nonzero item count succeeded
C13_Witness ==
    \E t \in Threads :
        /\ th[t].pc = "e_unlock" /\ th[t].cnt # 0 /\ th[t].fs = FDB_RESULT_SUCCESS
        /\ th[t].target # NoTxn /\ ~Registered(th[t].target)
        /\ handle_txn[th[t].h] = NoTxn

\* the steps that construct, register, discard or deregister a transaction
LifecycleStep(t) ==
    \/ begin_New(t) \/ begin_Add(t)
    \/ abort_Discard(t) \/ abort_Remove(t) \/ abort_Free(t) \/ abort_Clear(t)
    \/ end_Remove(t) \/ end_Free(t) \/ end_Clear(t)
\* the step that locks the file mutex and reads the file's state
StatusCheck(t) == begin_Lock(t) \/ abort_Lock(t) \/ end_Lock(t)
\* that step reads FILE_REMOVED_PENDING (begin reads no status during a rollback)
SeesRemovedPending(t) ==
    /\ StatusCheck(t)
    /\ file_status[FileOf(th[t].h)] = FILE_REMOVED_PENDING
    /\ ~(th[t].op = OpBegin /\ rollback_on[FileOf(th[t].h)])

\* C16: a transaction is constructed, registered, discarded or deregistered
\* only by a thread that holds the file mutex, with a file status that is
\* not FILE_REMOVED_PENDING and, for begin, with no rollback going on; the
\* status and the rollback flag do not change while the mutex is held, so
\* they are the ones read under that hold. A status check that reads
\* FILE_REMOVED_PENDING unlocks the mutex and goes back to the file-reopen
\* step, having touched no transaction, slot or WAL list.
C16_LifecycleUnderStableHold ==
    [][\A t \in Threads :
         LET f == FileOf(th[t].h) IN
         /\ LifecycleStep(t) =>
              /\ file_mutex[f] = t
              /\ file_status[f] # FILE_REMOVED_PENDING
              /\ th[t].op = OpBegin => ~rollback_on[f]
         /\ file_mutex[f] = t /\ file_mutex'[f] = t =>
              file_status'[f] = file_status[f] /\ rollback_on'[f] = rollback_on[f]
         /\ SeesRemovedPending(t) =>
              /\ file_mutex'[f] = NoThread
              /\ th'[t].pc \in {"b_reopen", "a_reopen", "e_reopen"}
              /\ th'[t].op = th[t].op
              /\ UNCHANGED <<handle_txn, txnVars>>]_vars

\* a call that saw FILE_REMOVED_PENDING and started over is deregistering its
\* transaction, the file mutex held and the status stable
C16_Witness ==
    \E t \in Threads :
        /\ th[t].retried /\ th[t].pc \in {"a_free", "e_free"}
        /\ th[t].target # NoTxn /\ ~Registered(th[t].target)
        /\ file_mutex[FileOf(th[t].h)] = t
        /\ file_status[FileOf(th[t].h)] # FILE_REMOVED_PENDING

\* C17: a thread in endTransaction holds the file mutex exactly from the
\* status check that found the file stable to the unlock before the return,
\* that is at removeTransaction, at the clearing of the slot and at the
\* unlock: not at the item-count read, not at the commit delegate call, not
\* between iterations of the loop; and it holds it only when the commit
\* was not needed or returned Success.
C17_EndLocksAfterCommit ==
    \A t \in Threads :
        th[t].op = OpEnd =>
            /\ file_mutex[FileOf(th[t].h)] = t <=>
                 th[t].pc \in {"e_remove", "e_free", "e_clear", "e_unlock"}
            /\ file_mutex[FileOf(th[t].h)] = t =>
                 \/ th[t].cnt = 0 /\ th[t].fs = NoStatus
                 \/ th[t].cnt # 0 /\ th[t].fs = FDB_RESULT_SUCCESS

\* an end whose commit succeeded holds the file mutex, its transaction
\* deregistered and its slot about to be cleared
C17_Witness ==
    \E t \in Threads :
        /\ th[t].pc = "e_free" /\ th[t].cnt # 0 /\ th[t].fs = FDB_RESULT_SUCCESS
        /\ file_mutex[FileOf(th[t].h)] = t
        /\ th[t].target # NoTxn /\ ~Registered(th[t].target)

\* C19: the transaction beginTransaction constructs has prev_hdr_bid equal
\* to BLK_NOT_FOUND exactly when the file status is FILE_COMPACT_OLD, and to
\* the handle's last_hdr_bid otherwise, and prev_revnum equal to the
\* handle's cur_header_revnum; the handle's two fields are those of the
\* file's latest header, the thread holds the file mutex, and the file
\* status does not change between the status check and the construction.
C19_HeaderAnchor ==
    [][\A t \in Threads :
         LET h == th[t].h
             f == FileOf(h)
             x == Len(txns) + 1
         IN  /\ begin_New(t) =>
                  /\ file_mutex[f] = t
                  /\ last_hdr_bid[h] = HeaderBid(file_header[f])
                  /\ cur_header_revnum[h] = file_header[f]
                  /\ handle_txn'[h] = x
                  /\ txns'[x].prev_hdr_bid = BLK_NOT_FOUND <=>
                       file_status[f] = FILE_COMPACT_OLD
                  /\ file_status[f] # FILE_COMPACT_OLD =>
                       txns'[x].prev_hdr_bid = last_hdr_bid[h]
                  /\ txns'[x].prev_revnum = cur_header_revnum[h]
             /\ th[t].pc = "b_new" => file_status'[f] = file_status[f]]_vars

\* a transaction was begun on a file in FILE_COMPACT_OLD and has the
\* not-found anchor, with the revision of a header a commit has written
C19_Witness ==
    \E t \in Threads :
        LET x == handle_txn[th[t].h] IN
        /\ th[t].pc = "b_add" /\ x # NoTxn
        /\ file_status[FileOf(th[t].h)] = FILE_COMPACT_OLD
        /\ txns[x].prev_hdr_bid = BLK_NOT_FOUND
        /\ txns[x].prev_revnum > 0

\* the step of t is a return of endTransaction with a status other than Success
EndFails(t) ==
    \/ /\ th[t].op = OpEnd /\ th[t].pc # "idle" /\ th'[t].pc = "idle"
       /\ last'.ret # FDB_RESULT_SUCCESS
    \/ \E h \in Handles \cup {NullFhandle} : endTransaction(t, h) /\ th' = th

\* C20: endTransaction has written the handle's slot (cleared it) exactly
\* when it returns Success. An end that returns another status has neither
\* cleared the slot nor deregistered a transaction, and its return leaves the
\* slot, the WAL's transaction list and the transactions as they are: also
\* when the commit delegate had succeeded and the file-reopen resolution
\* then failed, end returning the reopen status.
C20_ClearsIffSuccess ==
    [][\A t \in Threads :
         /\ (th[t].op = OpEnd /\ th[t].pc # "idle" /\ th'[t].pc = "idle") =>
              /\ last'.ret = FDB_RESULT_SUCCESS <=> last'.stores = 1
              /\ last'.ret = FDB_RESULT_SUCCESS <=> th[t].pc = "e_unlock"
         /\ EndFails(t) =>
              /\ last'.stores = 0 /\ last'.target = NoTxn
              /\ UNCHANGED <<handle_txn, wal_txn_list, txns>>
         /\ (end_Reopen(t) /\ th'[t].pc = "idle") => last'.ret = ReopenError]_vars

\* an end has returned the reopen status after its commit succeeded: the
\* entries are committed, the transaction still in the slot and registered
C20_Witness ==
    /\ Returned(OpEnd, ReopenError)
    /\ handle_txn[last.h] # NoTxn
    /\ Registered(handle_txn[last.h])
    /\ txns[handle_txn[last.h]].destroyed = 0
    /\ getItemCount(txns[handle_txn[last.h]]) > 0
    /\ wal_entries[handle_txn[last.h]] = 0
    /\ file_header[FileOf(last.h)] > 0

\* item i sits in the list, in the slot its dwq_index names
ValidIndex(i) ==
    /\ txn_items # NullList
    /\ dwq_index[i] >= 0 /\ dwq_index[i] < Len(txn_items[1])
    /\ txn_items[1][dwq_index[i] + 1] = i

\* C14: on a transaction whose list was never discarded, an addTxnItem call
\* returns the number of addTxnItem calls that took txn_lock before it (0,
\* 1, 2, ... in lock order, whichever threads call), the item sits in that
\* slot with that index recorded, and the list is created by the call that
\* is first to lock. A resetTxnItem on an item with a valid recorded index
\* empties that one slot, all other slots and the length of the list
\* unchanged, then sets that one item's dwq_index to the sentinel, all other
\* recorded indices unchanged; it does not touch the order of later adds.
C14_ItemIndices ==
    [][\A t \in Threads :
         LET i == ith[t].item
             idx == dwq_index[i]
         IN  /\ (addTxnItem_Create(t) /\ ~discarded) =>
                  /\ txn_items = NullList <=> ith[t].ord = 0
                  /\ txns'[ItemTxn].txn_items # NullList
             /\ (addTxnItem_Unlock(t) /\ ~discarded) =>
                  /\ ilast'.ret = ith[t].ord
                  /\ dwq_index[i] = ith[t].ord
                  /\ Len(txn_items[1]) = ith[t].ord + 1
                  /\ txn_items[1][ith[t].ord + 1] = i
             /\ (resetTxnItem_Slot(t) /\ ValidIndex(i)) =>
                  /\ txns'[ItemTxn].txn_items =
                       <<[k \in 1..Len(txn_items[1]) |->
                            IF k = idx + 1 THEN NullItem ELSE txn_items[1][k]]>>
                  /\ UNCHANGED <<dwq_index, lock_order>>
             /\ resetTxnItem_Index(t) =>
                  /\ dwq_index' = [j \in Items |->
                                     IF j = i THEN NoDwqIndex ELSE dwq_index[j]]
                  /\ UNCHANGED <<txns, lock_order>>
             /\ resetTxnItem_Unlock(t) => UNCHANGED <<txns, dwq_index, lock_order>>]_vars

\* after the first item was reset, the second addTxnItem has returned index 1:
\* slot 0 is empty, its item's index is the sentinel, slot 1 holds the new item
C14_Witness ==
    /\ ilast.op = OpAdd /\ ilast.ret = 1 /\ ~discarded
    /\ txn_items # NullList /\ Len(txn_items[1]) = 2
    /\ txn_items[1][1] = NullItem
    /\ txn_items[1][2] = ilast.item
    /\ dwq_index[ilast.item] = 1
    /\ \E i \in passed : dwq_index[i] = NoDwqIndex

\* the thread is inside a mutation of the item list, txn_lock taken
Mutating(t) ==
    /\ ith[t].op \in {OpAdd, OpResetItem, OpResetItems}
    /\ ith[t].pc \notin {"idle", "ad_lock", "ri_lock", "rs_lock"}
\* the index a resetTxnItem under way reads, or has read, from its item
IndexRead(t) == IF ith[t].pc = "ri_slot" THEN dwq_index[ith[t].item] ELSE ith[t].ret
\* txn_items after the call of t as a whole has acted on the value v
WholeMutation(t, v) ==
    CASE ith[t].op = OpAdd -> addTxnItem([txn_items |-> v], ith[t].item).txn_items
      [] ith[t].op = OpResetItems -> NullList
      [] OTHER -> IF v = NullList THEN v
                  ELSE <<[k \in 1..Len(v[1]) |->
                            IF k = IndexRead(t) + 1 THEN NullItem ELSE v[1][k]]>>
\* txn_items before and after the mutations that are under way
BeforeOrAfter ==
    {stable} \cup {WholeMutation(t, stable) : t \in {u \in Threads : Mutating(u)}}

\* C15: the count getItemCount reads is the count of the list as the last
\* completed mutation left it, or as a mutation under way will leave it as a
\* whole; it is 0 when the list was never created or was discarded; the
\* pointer getItemList reads is one of those lists too, never a deleted or a
\* created-but-still-empty one. Each mutation, when it unlocks, has left
\* the list as its whole effect on the list the last mutation left.
C15_ReadersSeeWholeMutations ==
    [][\A t \in Threads :
         /\ getItemCount_Read(t) =>
              /\ ith'[t].ret \in {getItemCount([txn_items |-> v]) : v \in BeforeOrAfter}
              /\ (stable = NullList /\ \A u \in Threads : ~Mutating(u)) =>
                   ith'[t].ret = 0
         /\ getItemList_Read(t) =>
              /\ ~ith'[t].ret.freed
              /\ ith'[t].ret.ptr \in BeforeOrAfter
         /\ (getItemCount_Unlock(t) \/ getItemList_Unlock(t)) =>
              ilast'.ret = ith[t].ret /\ UNCHANGED <<txns, dwq_index, stable>>
         /\ (addTxnItem_Unlock(t) \/ resetTxnItems_Unlock(t)) =>
              txn_items = WholeMutation(t, stable)
         /\ (resetTxnItem_Unlock(t) /\ ~null_deref) =>
              txn_items = WholeMutation(t, stable)]_vars

\* a getItemCount has read the count 1 while an addTxnItem of another thread
\* waits for txn_lock
C15_Witness ==
    \E t, u \in Threads :
        /\ ith[t].pc = "gc_unlock" /\ ith[t].ret = 1
        /\ ith[u].pc = "ad_lock"
        /\ stable # NullList /\ Len(stable[1]) = 1

\* the statements of the stabilization loop: file reopen, lock and status check
InLoop(t) == th[t].pc \in {"b_reopen", "b_lock", "a_reopen", "a_lock", "e_reopen", "e_lock"}

\* C18: the stabilization loop has no exit but the status check: a thread in
\* the loop does not hold the file mutex between iterations, and a status
\* check that reads FILE_REMOVED_PENDING goes back to the file-reopen step
\* (a begin during a rollback returns instead), so the call constructs and
\* deregisters nothing while the status stays FILE_REMOVED_PENDING. Under
\* fair scheduling, if the file status is eventually never
\* FILE_REMOVED_PENDING again, every call in the loop returns, unless the
\* process has died.
C18_LoopEndsWhenStable ==
    /\ [](\A t \in Threads : InLoop(t) => file_mutex[FileOf(th[t].h)] # t)
    /\ [][\A t \in Threads :
            (StatusCheck(t) /\ file_status[FileOf(th[t].h)] = FILE_REMOVED_PENDING) =>
                \/ th'[t].pc \in {"b_reopen", "a_reopen", "e_reopen"}
                \/ th[t].op = OpBegin /\ th'[t].pc = "b_deny"]_vars
    /\ (<>[](file_status["f1"] # FILE_REMOVED_PENDING)) =>
         \A t \in Threads : InLoop(t) ~> (th[t].pc = "idle" \/ crashed)

\* a call that saw FILE_REMOVED_PENDING and started over has found the file
\* stable and is about to unlock and return
C18_Witness ==
    \E t \in Threads :
        /\ th[t].retried /\ th[t].pc \in {"b_unlock", "a_unlock", "e_unlock"}
        /\ file_mutex[FileOf(th[t].h)] = t
        /\ file_status[FileOf(th[t].h)] # FILE_REMOVED_PENDING

====
